---- MODULE Spec2Model ----
(***************************************************************************)
(* http-types, src/body.rs: the streaming HTTP body.                       *)
(*                                                                         *)
(* A Body owns a boxed buffered reader, a fallback Mime and an optional    *)
(* length.  The model keeps one Body under observation: it is built by one *)
(* of the constructors, read through the Read / BufRead forwarding         *)
(* methods, inspected through len / is_empty / mime, and finally consumed  *)
(* by into_bytes / into_string / into_json or reclaimed by into_reader.    *)
(***************************************************************************)
EXTENDS Integers, Sequences, FiniteSets, TLC

\* ------------------------------------------------------------- bounds
\* Longest byte sequence handed to a constructor.
MaxLen == 3
\* Longest text handed to a constructor.
MaxChars == 2
\* Largest destination buffer of read and largest amount of consume.
MaxCap == 2
\* Largest chunk and largest single read of an external reader.
MaxChunk == 2

\* The initial capacity of the buffer into_bytes and into_json drain into.
VecCapacity == 1024

ByteVals == {65, 195}       \* 'A', and the lead byte of a two-byte UTF-8 sequence
CharVals == {65, 233}

Min(a, b) == IF a <= b THEN a ELSE b
Max(a, b) == IF a >= b THEN a ELSE b

SeqsUpTo(S, n) == UNION {[1..k -> S] : k \in 0..n}

\* Option<usize>
None == [some |-> FALSE, v |-> 0]
Some(n) == [some |-> TRUE, v |-> n]

\* mime::BYTE_STREAM, mime::PLAIN, mime::JSON
BYTE_STREAM == "application/octet-stream"
PLAIN == "text/plain;charset=utf-8"
JSON == "application/json"

\* ------------------------------------------------ text and JSON codecs
\* String::into_bytes / str::len: the UTF-8 encoding of a char sequence
\* (code points below 0x800: one or two bytes each).
RECURSIVE Utf8Encode(_)
Utf8Encode(s) ==
    IF s = <<>> THEN <<>>
    ELSE LET c == Head(s)
             e == IF c < 128 THEN <<c>>
                  ELSE <<192 + (c \div 64), 128 + (c % 64)>>
         IN  e \o Utf8Encode(Tail(s))

\* String::from_utf8 as read_to_string applies it: the decoded chars, or
\* ok = FALSE on a malformed sequence.
RECURSIVE Utf8Decode(_)
Utf8Decode(b) ==
    IF b = <<>> THEN [ok |-> TRUE, str |-> <<>>]
    ELSE IF b[1] < 128
         THEN LET r == Utf8Decode(Tail(b))
              IN  [ok |-> r.ok, str |-> IF r.ok THEN <<b[1]>> \o r.str ELSE <<>>]
    ELSE IF b[1] >= 194 /\ b[1] <= 223 /\ Len(b) >= 2 /\ b[2] >= 128 /\ b[2] <= 191
         THEN LET r == Utf8Decode(Tail(Tail(b)))
                  c == (b[1] - 192) * 64 + (b[2] - 128)
              IN  [ok |-> r.ok, str |-> IF r.ok THEN <<c>> \o r.str ELSE <<>>]
    ELSE [ok |-> FALSE, str |-> <<>>]

\* The values handed to from_json: a one-digit number, an empty array, and a
\* value serde_json cannot serialize (a map whose keys are not strings).
JsonNone == [t |-> "none", v |-> 0]
JsonVals == {[t |-> "num", v |-> 1], [t |-> "num", v |-> 7],
             [t |-> "arr", v |-> 0], [t |-> "badmap", v |-> 0]}
JsonTypes == {"num", "arr"}

\* serde_json::to_vec
JsonToVec(j) ==
    CASE j.t = "num" -> [ok |-> TRUE, bytes |-> <<48 + j.v>>]
      [] j.t = "arr" -> [ok |-> TRUE, bytes |-> <<91, 93>>]
      [] OTHER       -> [ok |-> FALSE, bytes |-> <<>>]

\* serde_json::from_slice::<T>
JsonFromSlice(b, T) ==
    LET parsed == IF Len(b) = 1 /\ b[1] >= 48 /\ b[1] <= 57
                  THEN [t |-> "num", v |-> b[1] - 48]
                  ELSE IF b = <<91, 93>> THEN [t |-> "arr", v |-> 0]
                  ELSE JsonNone
    IN  IF parsed.t = T THEN [ok |-> TRUE, json |-> parsed]
        ELSE [ok |-> FALSE, json |-> JsonNone]

\* ------------------------------------------------------ backing stores
\* Box<dyn BufRead>: io::empty(), io::Cursor<Vec<u8>>, or the caller's reader.
\* An external reader streams `data`; fill_buf exposes at most `chunk` bytes,
\* one read call delivers at most `rd` bytes, and a read or fill_buf at
\* position `fail` reports an I/O error once (fail = -1: no failure).
EmptyReader ==
    [kind |-> "empty", data |-> <<>>, pos |-> 0, chunk |-> 0, rd |-> 0, fail |-> -1]
CursorReader(bytes) ==
    [kind |-> "cursor", data |-> bytes, pos |-> 0, chunk |-> 0, rd |-> 0, fail |-> -1]
ExtReader(bytes, chunk, rd, fail) ==
    [kind |-> "ext", data |-> bytes, pos |-> 0, chunk |-> chunk, rd |-> rd, fail |-> fail]

ExtReaders ==
    UNION {{ExtReader(d, ch, rd, f) : ch \in {1, MaxChunk}, rd \in {1, MaxChunk},
                                     f \in -1..Len(d)} :
           d \in SeqsUpTo(ByteVals, MaxLen - 1)}

\* The length hints handed to from_reader: unknown, zero, and a length that
\* is below, at or above what the reader streams.
HintVals == {None, Some(0), Some(MaxLen - 1)}

\* What is left of the stream before its end or its pending failure.
Limit(r) == IF r.fail >= r.pos THEN Min(r.fail, Len(r.data)) ELSE Len(r.data)

Chunk(r, n) == SubSeq(r.data, Min(r.pos, Len(r.data)) + 1, Min(r.pos, Len(r.data)) + n)

\* <dyn BufRead>::poll_fill_buf
reader_poll_fill_buf(r) ==
    CASE r.kind = "empty" ->
           [ok |-> TRUE, chunk |-> <<>>, reader |-> r]
      [] r.kind = "cursor" ->
           [ok |-> TRUE, chunk |-> Chunk(r, Len(r.data) - Min(r.pos, Len(r.data))),
            reader |-> r]
      [] OTHER ->
           IF r.fail = r.pos
           THEN [ok |-> FALSE, chunk |-> <<>>, reader |-> [r EXCEPT !.fail = -1]]
           ELSE [ok |-> TRUE, chunk |-> Chunk(r, Min(r.chunk, Limit(r) - r.pos)),
                 reader |-> r]

\* <dyn BufRead>::consume
reader_consume(r, amt) ==
    IF r.kind = "empty" THEN r ELSE [r EXCEPT !.pos = r.pos + amt]

\* <dyn Read>::poll_read into a destination of capacity c
reader_poll_read(r, c) ==
    CASE r.kind = "empty" ->
           [ok |-> TRUE, n |-> 0, bytes |-> <<>>, reader |-> r]
      [] r.kind = "cursor" ->
           LET n == Min(c, Len(r.data) - Min(r.pos, Len(r.data)))
           IN  [ok |-> TRUE, n |-> n, bytes |-> Chunk(r, n),
                reader |-> [r EXCEPT !.pos = r.pos + n]]
      [] OTHER ->
           IF r.fail = r.pos
           THEN [ok |-> FALSE, n |-> 0, bytes |-> <<>>,
                 reader |-> [r EXCEPT !.fail = -1]]
           ELSE LET n == Min(c, Min(r.rd, Limit(r) - r.pos))
                IN  [ok |-> TRUE, n |-> n, bytes |-> Chunk(r, n),
                     reader |-> [r EXCEPT !.pos = r.pos + n]]

\* ------------------------------------------------------------ the Body
Body_empty ==
    [reader |-> EmptyReader, mime |-> BYTE_STREAM, length |-> Some(0)]

\* Mutant: the reader is cut off at the hinted length.
Body_from_reader_Take(reader, len) ==
    [reader |-> IF len.some
                THEN [reader EXCEPT !.data = SubSeq(reader.data, 1,
                                                    Min(len.v, Len(reader.data)))]
                ELSE reader,
     mime |-> BYTE_STREAM, length |-> len]

Body_from_reader(reader, len) ==
    [reader |-> reader, mime |-> BYTE_STREAM, length |-> len]

\* Mutant: the length is left unset.
Body_from_bytes_NoLength(bytes) ==
    [reader |-> CursorReader(bytes), mime |-> BYTE_STREAM, length |-> None]

Body_from_bytes(bytes) ==
    [reader |-> CursorReader(bytes), mime |-> BYTE_STREAM, length |-> Some(Len(bytes))]

Body_from_json(json) ==
    LET bytes == JsonToVec(json)
    IN  IF ~bytes.ok THEN [ok |-> FALSE, body |-> Body_empty]
        ELSE [ok |-> TRUE,
              body |-> [reader |-> CursorReader(bytes.bytes), mime |-> JSON,
                        length |-> Some(Len(bytes.bytes))]]

From_String(s) ==
    [reader |-> CursorReader(Utf8Encode(s)), mime |-> PLAIN,
     length |-> Some(Len(Utf8Encode(s)))]

\* Mutant: text gets the binary fallback.
From_str_Binary(s) ==
    [reader |-> CursorReader(Utf8Encode(s)), mime |-> BYTE_STREAM,
     length |-> Some(Len(Utf8Encode(s)))]

From_str(s) ==
    [reader |-> CursorReader(Utf8Encode(s)), mime |-> PLAIN,
     length |-> Some(Len(Utf8Encode(s)))]

From_Vec(b) ==
    [reader |-> CursorReader(b), mime |-> BYTE_STREAM, length |-> Some(Len(b))]

From_slice(b) ==
    [reader |-> CursorReader(b), mime |-> BYTE_STREAM, length |-> Some(Len(b))]

Body_len(b) == b.length

\* Mutant: emptiness is decided by what is left to read.
Body_is_empty_Remaining(b) ==
    [some |-> TRUE, v |-> (b.reader.pos >= Len(b.reader.data))]

Body_is_empty(b) ==
    IF b.length.some THEN [some |-> TRUE, v |-> (b.length.v = 0)]
    ELSE [some |-> FALSE, v |-> FALSE]

Body_mime(b) == b.mime

\* Mutant: the reader is handed back drained.
Body_into_reader_Drained(b) == [b.reader EXCEPT !.pos = Len(b.reader.data)]

Body_into_reader(b) == b.reader

\* Mutant: the length counts down as bytes are read.
Body_poll_read_Remaining(b, c) ==
    LET r == reader_poll_read(b.reader, c)
    IN  [ok |-> r.ok, n |-> r.n, bytes |-> r.bytes,
         body |-> [b EXCEPT !.reader = r.reader,
                            !.length = IF b.length.some
                                       THEN Some(Max(b.length.v - r.n, 0))
                                       ELSE None]]

\* Mutant: a read after the end of the stream was reported is an error.
Body_poll_read_EofError(b, c) ==
    LET r == reader_poll_read(b.reader, c)
    IN  IF b.reader.pos > Len(b.reader.data)
        THEN [ok |-> FALSE, n |-> 0, bytes |-> <<>>, body |-> b]
        ELSE IF r.ok /\ r.n = 0 /\ c > 0
        THEN [ok |-> TRUE, n |-> 0, bytes |-> <<>>,
              body |-> [b EXCEPT !.reader =
                            [r.reader EXCEPT !.pos = Len(b.reader.data) + 1]]]
        ELSE [ok |-> r.ok, n |-> r.n, bytes |-> r.bytes,
              body |-> [b EXCEPT !.reader = r.reader]]

\* impl Read for Body
Body_poll_read(b, c) ==
    LET r == reader_poll_read(b.reader, c)
    IN  [ok |-> r.ok, n |-> r.n, bytes |-> r.bytes,
         body |-> [b EXCEPT !.reader = r.reader]]

\* impl BufRead for Body
Body_poll_fill_buf(b) ==
    LET r == reader_poll_fill_buf(b.reader)
    IN  [ok |-> r.ok, chunk |-> r.chunk, body |-> [b EXCEPT !.reader = r.reader]]

\* Mutant: consume is not forwarded to the reader.
Body_consume_Noop(b, amt) == b

Body_consume(b, amt) == [b EXCEPT !.reader = reader_consume(b.reader, amt)]

\* ReadExt::read_to_end on the Body, into a Vec of the given capacity: when
\* the buffer is full reserve 32 more bytes and extend it to its capacity,
\* read into the spare room, stop at the first read that returns 0 or fails.
\* `size` is the buffer's extended length, `trace` the outcome of every read
\* issued (the byte count, -1 for a failure).
RECURSIVE read_to_end_loop(_, _, _, _, _)
read_to_end_loop(b, buf, size, cap, trace) ==
    LET full == Len(buf) = size
        cp   == IF full /\ cap - Len(buf) < 32 THEN Max(2 * cap, Len(buf) + 32)
                ELSE cap
        sz   == IF full THEN cp ELSE size
        r    == Body_poll_read(b, sz - Len(buf))
    IN  IF ~r.ok
        THEN [ok |-> FALSE, bytes |-> buf, body |-> r.body, trace |-> Append(trace, -1)]
        ELSE IF r.n = 0
        THEN [ok |-> TRUE, bytes |-> buf, body |-> r.body, trace |-> Append(trace, 0)]
        ELSE read_to_end_loop(r.body, buf \o r.bytes, sz, cp, Append(trace, r.n))

read_to_end(b, capacity) == read_to_end_loop(b, <<>>, 0, capacity, <<>>)

NoBody == [reader |-> EmptyReader, mime |-> "-", length |-> None]
NoShadow == [ok |-> TRUE, n |-> 0, bytes |-> <<>>, chunk |-> <<>>, body |-> NoBody]

\* The result of an operation, as the caller sees it (alt: what fill_buf +
\* copy + consume gives in the state a read ran in).
Ret0 ==
    [ok |-> TRUE, err |-> "none", cap |-> 0, n |-> 0, bytes |-> <<>>, opt |-> None,
     flag |-> [some |-> FALSE, v |-> FALSE], str |-> <<>>, json |-> JsonNone,
     mime |-> "-", trace |-> <<>>, alt |-> NoShadow]

\* Mutant: a failed read ends the drain and what was read so far is returned.
Body_into_bytes_Partial(b) ==
    LET r == read_to_end(b, VecCapacity)
    IN  [body |-> r.body, ret |-> [Ret0 EXCEPT !.bytes = r.bytes, !.trace = r.trace]]

\* Mutant: the source is rewound before it is drained.
Body_into_bytes_Rewind(b) ==
    LET r == read_to_end([b EXCEPT !.reader.pos = 0], VecCapacity)
    IN  IF ~r.ok
        THEN [body |-> r.body, ret |-> [Ret0 EXCEPT !.ok = FALSE, !.err = "io",
                                                    !.trace = r.trace]]
        ELSE [body |-> r.body, ret |-> [Ret0 EXCEPT !.bytes = r.bytes,
                                                    !.trace = r.trace]]

Body_into_bytes(b) ==
    LET r == read_to_end(b, VecCapacity)
    IN  IF ~r.ok
        THEN [body |-> r.body, ret |-> [Ret0 EXCEPT !.ok = FALSE, !.err = "io",
                                                    !.trace = r.trace]]
        ELSE [body |-> r.body, ret |-> [Ret0 EXCEPT !.bytes = r.bytes,
                                                    !.trace = r.trace]]

Body_into_string(b) ==
    LET len == Body_len(b)
        r   == read_to_end(b, IF len.some THEN len.v ELSE 0)
        s   == Utf8Decode(r.bytes)
    IN  IF ~r.ok
        THEN [body |-> r.body, ret |-> [Ret0 EXCEPT !.ok = FALSE, !.err = "io",
                                                    !.trace = r.trace]]
        ELSE IF ~s.ok
        THEN [body |-> r.body, ret |-> [Ret0 EXCEPT !.ok = FALSE, !.err = "utf8",
                                                    !.trace = r.trace]]
        ELSE [body |-> r.body, ret |-> [Ret0 EXCEPT !.str = s.str, !.trace = r.trace]]

Body_into_json(b, T) ==
    LET r == read_to_end(b, VecCapacity)
        j == JsonFromSlice(r.bytes, T)
    IN  IF ~r.ok
        THEN [body |-> r.body, ret |-> [Ret0 EXCEPT !.ok = FALSE, !.err = "io",
                                                    !.trace = r.trace]]
        ELSE IF ~j.ok
        THEN [body |-> r.body, ret |-> [Ret0 EXCEPT !.ok = FALSE, !.err = "json",
                                                    !.trace = r.trace]]
        ELSE [body |-> r.body, ret |-> [Ret0 EXCEPT !.json = j.json, !.trace = r.trace]]

\* --------------------------------------------------------------- state
VARIABLES
    phase,     \* "new", "live", "reclaimed" (into_reader), "done" (into_*)
    body,      \* the Body: [reader, mime, length]
    ctor,      \* the constructor that built it and its argument
    len0,      \* len() as observed right after construction
    mime0,     \* mime() as observed right after construction
    taken,     \* the bytes handed out by read and consume so far
    eof,       \* a read into a non-empty destination has returned 0
    eofReads,  \* reads issued after that (counted up to 2)
    lastOp,    \* the last operation called
    lastRet,   \* what it returned
    pre,       \* the Body as it was when the last terminal operation was called
    raw,       \* the reader into_reader handed back
    manual     \* the bytes read from it by hand: [ok, bytes, done]

vars == <<phase, body, ctor, len0, mime0, taken, eof, eofReads, lastOp, lastRet,
          pre, raw, manual>>

NoManual == [ok |-> TRUE, bytes |-> <<>>, done |-> FALSE]

Init ==
    /\ phase = "new"
    /\ body = NoBody
    /\ ctor = [name |-> "none", arg |-> 0]
    /\ len0 = None
    /\ mime0 = "-"
    /\ taken = <<>>
    /\ eof = FALSE
    /\ eofReads = 0
    /\ lastOp = "none"
    /\ lastRet = Ret0
    /\ pre = NoBody
    /\ raw = EmptyReader
    /\ manual = NoManual

\* ------------------------------------------------------- constructors
Built(name, arg, b) ==
    /\ phase = "new"
    /\ phase' = "live"
    /\ body' = b
    /\ ctor' = [name |-> name, arg |-> arg]
    /\ len0' = Body_len(b)
    /\ mime0' = Body_mime(b)
    /\ lastOp' = name
    /\ lastRet' = Ret0
    /\ UNCHANGED <<taken, eof, eofReads, pre, raw, manual>>

Empty == Built("empty", 0, Body_empty)

FromReader ==
    \E r \in ExtReaders, len \in HintVals :
        Built("from_reader", [reader |-> r, len |-> len], Body_from_reader(r, len))

FromBytes == \E b \in SeqsUpTo(ByteVals, MaxLen) : Built("from_bytes", b, Body_from_bytes(b))

FromJson ==
    \E j \in JsonVals :
        LET r == Body_from_json(j)
        IN  IF r.ok THEN Built("from_json", j, r.body)
            ELSE /\ phase = "new"
                 /\ lastOp' = "from_json"
                 /\ lastRet' = [Ret0 EXCEPT !.ok = FALSE, !.err = "json"]
                 /\ UNCHANGED <<phase, body, ctor, len0, mime0, taken, eof, eofReads,
                                pre, raw, manual>>

FromString == \E s \in SeqsUpTo(CharVals, MaxChars) : Built("from_string", s, From_String(s))

FromStr == \E s \in SeqsUpTo(CharVals, MaxChars) : Built("from_str", s, From_str(s))

FromVec == \E b \in SeqsUpTo(ByteVals, MaxLen) : Built("from_vec", b, From_Vec(b))

FromSlice == \E b \in SeqsUpTo(ByteVals, MaxLen) : Built("from_slice", b, From_slice(b))

\* ------------------------------------------------- streaming operations
\* body.read(&mut buf).await with buf.len() = c
Read ==
    \E c \in 0..MaxCap :
        LET r  == Body_poll_read(body, c)
            fb == Body_poll_fill_buf(body)
            k  == Min(c, Len(fb.chunk))
        IN  /\ phase = "live"
            /\ body' = r.body
            /\ lastOp' = "read"
            /\ lastRet' = [Ret0 EXCEPT !.ok = r.ok, !.err = IF r.ok THEN "none" ELSE "io",
                                       !.cap = c, !.n = r.n, !.bytes = r.bytes,
                                       !.alt = [ok |-> fb.ok, n |-> k,
                                                bytes |-> SubSeq(fb.chunk, 1, k),
                                                chunk |-> fb.chunk,
                                                body |-> IF fb.ok
                                                         THEN Body_consume(fb.body, k)
                                                         ELSE fb.body]]
            /\ taken' = taken \o r.bytes
            /\ eof' = (eof \/ (r.ok /\ c > 0 /\ r.n = 0))
            /\ eofReads' = IF eof THEN Min(eofReads + 1, 2) ELSE 0
            /\ UNCHANGED <<phase, ctor, len0, mime0, pre, raw, manual>>

\* body.fill_buf().await
FillBuf ==
    LET fb == Body_poll_fill_buf(body)
    IN  /\ phase = "live"
        /\ body' = fb.body
        /\ lastOp' = "fill_buf"
        /\ lastRet' = [Ret0 EXCEPT !.ok = fb.ok, !.err = IF fb.ok THEN "none" ELSE "io",
                                   !.bytes = fb.chunk]
        /\ UNCHANGED <<phase, ctor, len0, mime0, taken, eof, eofReads, pre,
                       raw, manual>>

\* Pin::new(&mut body).consume(amt).  An external reader is only told to skip
\* bytes the preceding fill_buf exposed; a Cursor or the empty reader takes any
\* amount (the Cursor's position is kept within one byte of its data's end).
Consume ==
    \E amt \in 0..MaxCap :
        /\ phase = "live"
        /\ body.reader.kind = "ext" =>
               lastOp = "fill_buf" /\ lastRet.ok /\ amt <= Len(lastRet.bytes)
        /\ body.reader.kind = "cursor" =>
               body.reader.pos + amt <= Len(body.reader.data) + 1
        /\ body' = Body_consume(body, amt)
        /\ lastOp' = "consume"
        /\ lastRet' = Ret0
        /\ taken' = taken \o Chunk(body.reader,
                                   Min(amt, Len(body.reader.data)
                                            - Min(body.reader.pos, Len(body.reader.data))))
        /\ UNCHANGED <<phase, ctor, len0, mime0, eof, eofReads, pre, raw, manual>>

\* ------------------------------------------------------------ accessors
Observe(op, ret) ==
    /\ phase = "live"
    /\ lastOp' = op
    /\ lastRet' = ret
    /\ UNCHANGED <<phase, body, ctor, len0, mime0, taken, eof, eofReads, pre,
                   raw, manual>>

LenCall == Observe("len", [Ret0 EXCEPT !.opt = Body_len(body)])

IsEmptyCall == Observe("is_empty", [Ret0 EXCEPT !.flag = Body_is_empty(body)])

MimeCall == Observe("mime", [Ret0 EXCEPT !.mime = Body_mime(body)])

\* --------------------------------------------------- terminal operations
Consumed(op, r) ==
    /\ phase = "live"
    /\ phase' = "done"
    /\ pre' = body
    /\ body' = NoBody
    /\ eof' = FALSE
    /\ eofReads' = 0
    /\ lastOp' = op
    /\ lastRet' = [r.ret EXCEPT !.opt = Body_len(body)]
    /\ UNCHANGED <<ctor, len0, mime0, taken, raw, manual>>

IntoBytes == Consumed("into_bytes", Body_into_bytes(body))

IntoString == Consumed("into_string", Body_into_string(body))

IntoJson == \E T \in JsonTypes : Consumed("into_json", Body_into_json(body, T))

IntoReader ==
    /\ phase = "live"
    /\ phase' = "reclaimed"
    /\ pre' = body
    /\ raw' = Body_into_reader(body)
    /\ manual' = NoManual
    /\ body' = NoBody
    /\ eof' = FALSE
    /\ eofReads' = 0
    /\ lastOp' = "into_reader"
    /\ lastRet' = Ret0
    /\ UNCHANGED <<ctor, len0, mime0, taken>>

\* The caller reads the reclaimed reader by hand until it reports the end of
\* the stream (or fails).
ManualRead ==
    \E c \in 1..MaxCap :
        LET r == reader_poll_read(raw, c)
        IN  /\ phase = "reclaimed"
            /\ ~manual.done
            /\ raw' = r.reader
            /\ manual' = [ok |-> r.ok, bytes |-> manual.bytes \o r.bytes,
                          done |-> (~r.ok \/ r.n = 0)]
            /\ lastOp' = "manual_read"
            /\ lastRet' = Ret0
            /\ UNCHANGED <<phase, body, ctor, len0, mime0, taken, eof, eofReads, pre>>

Next ==
    \/ Empty
    \/ FromReader
    \/ FromBytes
    \/ FromJson
    \/ FromString
    \/ FromStr
    \/ FromVec
    \/ FromSlice
    \/ Read
    \/ FillBuf
    \/ Consume
    \/ LenCall
    \/ IsEmptyCall
    \/ MimeCall
    \/ IntoBytes
    \/ IntoString
    \/ IntoJson
    \/ IntoReader
    \/ ManualRead

Spec == Init /\ [][Next]_vars

\* ------------------------------------------------------------- claims
ByteCtors == {"from_bytes", "from_vec", "from_slice"}
TextCtors == {"from_string", "from_str"}
IntoOps == {"into_bytes", "into_string", "into_json"}

\* An equivalent payload, constructed independently from the same argument.
Twin ==
    CASE ctor.name = "empty"       -> Body_empty
      [] ctor.name = "from_reader" -> Body_from_reader(ctor.arg.reader, ctor.arg.len)
      [] ctor.name = "from_bytes"  -> Body_from_bytes(ctor.arg)
      [] ctor.name = "from_json"   -> Body_from_json(ctor.arg).body
      [] ctor.name = "from_string" -> From_String(ctor.arg)
      [] ctor.name = "from_str"    -> From_str(ctor.arg)
      [] ctor.name = "from_vec"    -> From_Vec(ctor.arg)
      [] ctor.name = "from_slice"  -> From_slice(ctor.arg)
      [] OTHER                     -> NoBody

\* The bytes an in-memory constructor was given.
SourceBytes ==
    CASE ctor.name \in ByteCtors   -> ctor.arg
      [] ctor.name \in TextCtors   -> Utf8Encode(ctor.arg)
      [] ctor.name = "from_json"   -> JsonToVec(ctor.arg).bytes
      [] OTHER                     -> <<>>

\* C1: a payload built from a byte sequence b of length N (from_bytes, or the
\* conversions from a byte vector or slice) reports len() = Some(N), and
\* into_bytes() on the fresh payload succeeds with exactly the bytes of b in
\* order.
C1_BytesRoundTrip ==
    ctor.name \in ByteCtors =>
        /\ len0 = Some(Len(ctor.arg))
        /\ (lastOp = "into_bytes" /\ pre = Twin) =>
               lastRet.ok /\ lastRet.bytes = ctor.arg

C1_Witness ==
    /\ ctor.name \in ByteCtors
    /\ lastOp = "into_bytes"
    /\ pre = Twin
    /\ Len(ctor.arg) = MaxLen
    /\ ctor.arg[1] # ctor.arg[2]
    /\ lastRet.bytes = ctor.arg

\* C2: len() is the declared total: after any sequence of read, fill_buf and
\* consume calls, and up to the terminal call, it returns what it returned
\* right after construction.
C2_LenIsDeclaredTotal ==
    /\ phase = "live" => Body_len(body) = len0
    /\ lastOp = "len" => lastRet.opt = len0
    /\ phase = "done" => lastRet.opt = len0

C2_Witness ==
    /\ lastOp = "len"
    /\ eof
    /\ Len(taken) = MaxLen
    /\ lastRet.opt = Some(MaxLen)

C4_IntoReaderSameAsIntoBytes ==
    (phase = "reclaimed" /\ manual.done /\ pre = Twin) =>
        LET t == Body_into_bytes(Twin).ret
        IN  /\ manual.ok = t.ok
            /\ t.ok => manual.bytes = t.bytes

C4_Witness ==
    /\ phase = "reclaimed"
    /\ manual.done
    /\ manual.ok
    /\ pre = Twin
    /\ Len(manual.bytes) = MaxLen
    /\ manual.bytes[1] # manual.bytes[2]

\* C5: the length hint of from_reader is never checked: len() is the hint,
\* and into_bytes() on a fresh payload whose reader streams M bytes without
\* failing returns exactly those M bytes, whatever the hint.
C5_HintTakenOnFaith ==
    ctor.name = "from_reader" =>
        /\ len0 = ctor.arg.len
        /\ phase = "live" => Body_len(body) = ctor.arg.len
        /\ (lastOp = "into_bytes" /\ pre = Twin /\ ctor.arg.reader.fail = -1) =>
               lastRet.ok /\ lastRet.bytes = ctor.arg.reader.data

C5_Witness ==
    /\ ctor.name = "from_reader"
    /\ lastOp = "into_bytes"
    /\ pre = Twin
    /\ ctor.arg.reader.fail = -1
    /\ ctor.arg.len.some
    /\ Len(ctor.arg.reader.data) > 0
    /\ Len(ctor.arg.reader.data) < ctor.arg.len.v
    /\ lastRet.ok

RECURSIVE Sum(_)
Sum(t) == IF t = <<>> THEN 0 ELSE Head(t) + Sum(Tail(t))

\* C6: when a read of the backing store fails during into_bytes, into_string
\* or into_json, the operation returns that I/O error, the failing read is the
\* last read it issues, and it returns no accumulated bytes.
C6_IoErrorSurfaced ==
    (lastOp \in IntoOps /\ pre.reader.fail # -1) =>
        LET t == lastRet.trace
        IN  /\ ~lastRet.ok
            /\ lastRet.err = "io"
            /\ lastRet.bytes = <<>> /\ lastRet.str = <<>> /\ lastRet.json = JsonNone
            /\ t # <<>>
            /\ t[Len(t)] = -1
            /\ \A i \in 1..(Len(t) - 1) : t[i] > 0
            /\ Sum(SubSeq(t, 1, Len(t) - 1)) = pre.reader.fail - pre.reader.pos

C6_Witness ==
    /\ lastOp = "into_bytes"
    /\ pre.reader.fail > pre.reader.pos
    /\ ~lastRet.ok
    /\ Len(lastRet.trace) > 1

ExpectedMime ==
    CASE ctor.name \in {"empty", "from_reader"} \cup ByteCtors -> BYTE_STREAM
      [] ctor.name \in TextCtors -> PLAIN
      [] ctor.name = "from_json" -> JSON
      [] OTHER -> "-"

\* C8: the content type is fixed by the constructor (binary for empty,
\* from_reader, from_bytes and the byte conversions, plain text for text,
\* JSON for from_json) and no read, fill_buf, consume, len or is_empty call
\* changes it.
C8_MimeFixedAtConstruction ==
    /\ mime0 = ExpectedMime
    /\ phase = "live" => Body_mime(body) = ExpectedMime
    /\ lastOp = "mime" => lastRet.mime = ExpectedMime

C8_Witness ==
    /\ lastOp = "mime"
    /\ ctor.name = "from_str"
    /\ taken # <<>>
    /\ eof
    /\ lastRet.mime = PLAIN

\* C9 as stated: in every state, read into a destination of capacity c has
\* the result and leaves the cursor where fill_buf, copying k = min(c, chunk
\* length) bytes and consume(k) leave it; it returns k, and 0 exactly at the
\* end of the stream.
C9_ReadIsFillBufConsume ==
    lastOp = "read" =>
        /\ lastRet.ok = lastRet.alt.ok
        /\ body = lastRet.alt.body
        /\ lastRet.ok =>
               /\ lastRet.n = lastRet.alt.n
               /\ lastRet.bytes = lastRet.alt.bytes
               /\ (lastRet.n = 0) <=> (lastRet.alt.chunk = <<>>)

\* C9 amended: for a payload over the empty reader or an in-memory cursor,
\* read agrees with fill_buf + copy k + consume(k) and returns k, which is 0
\* exactly when the stream is at its end or the destination is empty.
C9_ReadIsFillBufConsumeInMemory ==
    (lastOp = "read" /\ body.reader.kind # "ext") =>
        /\ lastRet.ok /\ lastRet.alt.ok
        /\ body = lastRet.alt.body
        /\ lastRet.n = lastRet.alt.n
        /\ lastRet.n = Min(lastRet.cap, Len(lastRet.alt.chunk))
        /\ lastRet.bytes = lastRet.alt.bytes
        /\ (lastRet.n = 0) <=> (lastRet.alt.chunk = <<>> \/ lastRet.cap = 0)

C9_Witness ==
    /\ lastOp = "read"
    /\ body.reader.kind = "cursor"
    /\ lastRet.n = MaxCap
    /\ Len(lastRet.alt.chunk) > MaxCap
    /\ body.reader.pos = MaxCap

\* C10: into_bytes() drains from the current cursor: on a payload built from N
\* in-memory bytes of which k were consumed by read or consume, it returns the
\* N - k bytes from position k on, while len() still said Some(N).
C10_IntoBytesFromCursor ==
    (lastOp = "into_bytes" /\ pre.reader.kind = "cursor") =>
        /\ lastRet.ok
        /\ Len(taken) <= Len(SourceBytes)
        /\ lastRet.bytes = SubSeq(SourceBytes, Len(taken) + 1, Len(SourceBytes))
        /\ lastRet.opt = Some(Len(SourceBytes))

C10_Witness ==
    /\ lastOp = "into_bytes"
    /\ ctor.name \in ByteCtors
    /\ Len(taken) = 1
    /\ Len(lastRet.bytes) = MaxLen - 1
    /\ lastRet.opt = Some(MaxLen)
====
